---- MODULE Spec2Model ----
(***************************************************************************)
(* State-machine model of the multi-coin gateway core                      *)
(* (crates/common, crates/gateway-core, crates/connector-mock):            *)
(* FeeConfig, FeeEngine, Registry, Gateway and the Connector contract.     *)
(*                                                                         *)
(* Units.  f64 rates are integers in thousandths (0.005 is 5), amounts are *)
(* integers, fee amounts are thousandths of a currency unit (5.0 is 5000). *)
(* SystemTime is an integer number of ticks of 30 days, so the 30-day      *)
(* window of the source is 1 tick.  The wall clock never runs backwards.   *)
(***************************************************************************)
EXTENDS Integers, Sequences, FiniteSets, TLC

\* ------------------------------------------------------------------ bounds
\* Last tick of the wall clock.
MaxTime == 2
\* Transactions the busiest client records in the timed specifications.
MaxRecords == 2
\* Transactions recorded for the bulk client in the volume specification.
VolumeRecords == 101
\* Comma-separated parts of the longest FEE_TIERS value tried.
MaxParts == 2

\* ------------------------------------------------------- program constants
\* Duration::from_secs(30*24*3600), in ticks.
Window == 1

\* ------------------------------------------------------------- data model
Currency == {"BTC", "ETH", "SOL", "SUI", "XRP"}

\* ClientId values used by the callers.
Clients == {"alice", "bob"}

\* Request-handling units of execution sharing one Gateway.
Tasks == {"t1", "t2"}

\* Amount values the callers pass.
Amounts == {0, 1000}

\* Amount values the callers pass while the wall clock runs.
TimedAmounts == {1000}

\* Connector instances that may be registered, and the currency each serves.
ConnectorIds == {"k1", "k2", "k3"}

ConnCurrency(k) == IF k = "k3" THEN "ETH" ELSE "BTC"

\* Currencies the callers ask for.
CallCurrencies == {"BTC", "ETH"}

\* The GatewayError values a connector call may return.
ConnectorErrors ==
    { [variant |-> "InvalidAddress", msg |-> <<"detail">>],
      [variant |-> "Network",        msg |-> <<"detail">>],
      [variant |-> "NotImplemented", msg |-> <<>>],
      [variant |-> "Unknown",        msg |-> <<"detail">>] }

NoValue == [tag |-> "None"]

Ok(v) == [tag |-> "Ok", val |-> v]

Err(e) == [tag |-> "Err", err |-> e]

\* What one call of connector k may return for the Gateway operation op.
ConnectorOutputs(op, k) ==
    { Err(e) : e \in ConnectorErrors } \cup
    ( CASE op = "create_invoice" ->
             { Ok([address |-> [address |-> <<"addr", k>>, currency |-> ConnCurrency(k)],
                   invoice_id |-> <<"inv", k>>]) }
        [] op = "check_tx" ->
             { Ok([status |-> "Pending", by |-> k]), Ok([status |-> "Confirmed", by |-> k]) }
        [] OTHER ->
             { Ok([value |-> 1, currency |-> ConnCurrency(k)]) } )

\* -------------------------------------------------------------- FeeConfig
FeeTier(m, p) == [min_tx_count_30d |-> m, percent |-> p]

Defaults ==
    << FeeTier(0, 5), FeeTier(100, 4), FeeTier(1000, 3),
       FeeTier(10000, 2), FeeTier(100000, 1) >>

\* A token of the FEE_TIERS string with what str::parse makes of it:
\* u is <<n>> when it parses as u64 and <<>> when it does not, f likewise
\* for f64.
Token(u, f) == [u |-> u, f |-> f]

Num(n) == Token(<<n>>, <<n>>)

Junk == Token(<<>>, <<>>)

\* A token with a minus sign, such as "-0.004": not a u64, the f64 -n.
Neg(n) == Token(<<>>, <<0 - n>>)

\* Values of the FEE_TIERS variable: unset, or a list of comma-separated
\* parts, each a list of colon-separated tokens.
EnvUnset == [set |-> FALSE, parts |-> <<>>]

EnvOf(parts) == [set |-> TRUE, parts |-> parts]

\* Insertion of tier t into the sorted list s after every tier whose key is
\* not greater (sort_by_key is stable).
RECURSIVE InsertByKey(_, _)
InsertByKey(s, t) ==
    IF s = <<>> THEN <<t>>
    ELSE IF Head(s).min_tx_count_30d <= t.min_tx_count_30d
         THEN <<Head(s)>> \o InsertByKey(Tail(s), t)
         ELSE <<t>> \o s

\* Variant: the tiers stay in the order of the input.
SortByKeySkipped(s) == s

RECURSIVE SortByKey(_)
SortByKey(s) ==
    IF s = <<>> THEN <<>>
    ELSE InsertByKey(SortByKey(SubSeq(s, 1, Len(s) - 1)), s[Len(s)])

\* The tiers pushed by the loop over s.split(',').
RECURSIVE ParseTiers(_)
ParseTiers(parts) ==
    IF parts = <<>> THEN <<>>
    ELSE LET part == Head(parts)
             rest == ParseTiers(Tail(parts))
         IN  IF Len(part) >= 2 /\ part[1].u # <<>> /\ part[2].f # <<>>
             THEN <<FeeTier(part[1].u[1], part[2].f[1])>> \o rest
             ELSE rest

\* Variant: no fallback when no part parses.
FromEnvNoFallback(e) ==
    IF e.set THEN SortByKey(ParseTiers(e.parts)) ELSE Defaults

FromEnv(e) ==
    IF e.set /\ ParseTiers(e.parts) # <<>>
    THEN SortByKey(ParseTiers(e.parts))
    ELSE Defaults

\* -------------------------------------------------------------- FeeEngine
\* The client's Vec<SystemTime>; a client the map has no key for has none.
Entries(map, client) == IF client \in DOMAIN map THEN map[client] ELSE <<>>

\* map with client bound to v.
Put(map, client, v) ==
    [c \in DOMAIN map \cup {client} |-> IF c = client THEN v ELSE map[c]]

\* Variant: a timestamp equal to the last one is not stored again.
PushedOnce(v, now) == IF v # <<>> /\ v[Len(v)] = now THEN v ELSE Append(v, now)

\* Variant: the new timestamp is put in front of the older ones.
PushedFront(v, now) == <<now>> \o v

\* entries.push(SystemTime::now())
Pushed(v, now) == Append(v, now)

\* Variant: a timestamp exactly one window old is dropped as well.
PruneOlderThanStrict(v, win, now) ==
    LET cutoff == now - win
    IN  SelectSeq(v, LAMBDA t : t > cutoff)

PruneOlderThan(v, win, now) ==
    LET cutoff == now - win
    IN  SelectSeq(v, LAMBDA t : t >= cutoff)

\* Variant: a tier applies only above its threshold.
RECURSIVE ScanTiersStrict(_, _, _, _)
ScanTiersStrict(tiers, count, i, chosen) ==
    IF i > Len(tiers) THEN chosen
    ELSE IF count > tiers[i].min_tx_count_30d
         THEN ScanTiersStrict(tiers, count, i + 1, tiers[i])
         ELSE chosen

\* The loop of fee_for: the last tier in list order reached before the
\* first tier whose threshold exceeds count.
RECURSIVE ScanTiers(_, _, _, _)
ScanTiers(tiers, count, i, chosen) ==
    IF i > Len(tiers) THEN chosen
    ELSE IF count >= tiers[i].min_tx_count_30d
         THEN ScanTiers(tiers, count, i + 1, tiers[i])
         ELSE chosen

ChooseTier(tiers, count) == ScanTiers(tiers, count, 1, tiers[1])

Max(a, b) == IF a >= b THEN a ELSE b

\* Variant: the product is returned without the floor at zero.
AppliedFeeUnclamped(tiers, count, amount_value) ==
    LET chosen == ChooseTier(tiers, count)
    IN  [percent |-> chosen.percent,
         fee_amount |-> amount_value * chosen.percent]

AppliedFee(tiers, count, amount_value) ==
    LET chosen == ChooseTier(tiers, count)
    IN  [percent |-> chosen.percent,
         fee_amount |-> Max(amount_value * chosen.percent, 0)]

\* --------------------------------------------------------------- Registry
RegistryNew == [c \in {} |-> "k1"]

\* Variant: a currency that has a connector keeps it.
RegistryWithKeepFirst(reg, k) ==
    IF ConnCurrency(k) \in DOMAIN reg THEN reg ELSE Put(reg, ConnCurrency(k), k)

RegistryWith(reg, k) == Put(reg, ConnCurrency(k), k)

\* Variant: a currency without a connector falls back to some registered one.
RegistryGetFallback(reg, cur) ==
    IF cur \in DOMAIN reg
    THEN Ok(reg[cur])
    ELSE IF DOMAIN reg # {}
         THEN Ok(reg[CHOOSE c \in DOMAIN reg : TRUE])
         ELSE Err([variant |-> "Unknown", msg |-> <<"no connector for", cur>>])

RegistryGet(reg, cur) ==
    IF cur \in DOMAIN reg
    THEN Ok(reg[cur])
    ELSE Err([variant |-> "Unknown", msg |-> <<"no connector for", cur>>])

\* ---------------------------------------------------------------- Gateway
\* Variant: the status and balance queries are accounted as transactions.
FlowQueriesRecorded(op) ==
    CASE op = "create_invoice"    -> <<"count", "record", "call">>
      [] op = "fee_for"           -> <<"count">>
      [] op = "current_count_30d" -> <<"count">>
      [] op = "record_tx"         -> <<"record">>
      [] OTHER                    -> <<"record", "call">>

\* Variant: create_invoice records the transaction before it computes the fee.
FlowRecordFirst(op) ==
    CASE op = "create_invoice"    -> <<"record", "count", "call">>
      [] op = "fee_for"           -> <<"count">>
      [] op = "current_count_30d" -> <<"count">>
      [] op = "record_tx"         -> <<"record">>
      [] OTHER                    -> <<"call">>

\* The FeeEngine and connector stages of each operation, in statement order.
Flow(op) ==
    CASE op = "create_invoice"    -> <<"count", "record", "call">>
      [] op = "fee_for"           -> <<"count">>
      [] op = "current_count_30d" -> <<"count">>
      [] op = "record_tx"         -> <<"record">>
      [] OTHER                    -> <<"call">>

\* ------------------------------------------------------------------ state
VARIABLES
    phase,       \* "env" before FeeConfig::from_env, "build" while main
                 \* builds the Registry, then "serve"
    cfg,         \* FeeEngine.cfg.tiers
    inner,       \* Registry.inner
    counts_30d,  \* FeeEngine.counts_30d: ClientId -> Vec<SystemTime>
    lock,        \* holder of the RwLock's write guard, or "free"
    clock,       \* SystemTime::now()
    task,        \* each task's call in progress: position, arguments, locals
    recorded,    \* history: every timestamp record_tx pushed, per client
    obs,         \* history: what each call did (connector calls, fee reads)
    registered,  \* history: the connectors Registry::with was called with
    cap,         \* records allowed per client in this run
    env          \* the FEE_TIERS value FeeConfig::from_env finds

vars ==
    <<phase, cfg, inner, counts_30d, lock, clock, task, recorded, obs,
      registered, cap, env>>

IdleTask ==
    [pc |-> "idle", op |-> "none", stage |-> 0, client |-> "", cur |-> "",
     amount |-> 0, conn |-> "", count |-> 0, fee |-> NoValue, res |-> NoValue]

OffTask == [IdleTask EXCEPT !.pc = "off"]

NoObs ==
    [invoked |-> 0, connOut |-> NoValue, feeClock |-> -1, feeHist |-> -1,
     ownIdx |-> 0]

\* The task record after its current stage has finished: next stage of the
\* operation, or the return to the caller.
Advance(r) ==
    IF r.stage < Len(Flow(r.op))
    THEN [r EXCEPT !.stage = r.stage + 1, !.pc = Flow(r.op)[r.stage + 1]]
    ELSE [r EXCEPT !.pc = "done"]

\* A call of op entered with the given arguments, at its first stage.
Enter(op, client, cur, amount, conn) ==
    Advance([IdleTask EXCEPT !.op = op, !.client = client, !.cur = cur,
                             !.amount = amount, !.conn = conn])

\* Calls of client that will still push a timestamp.
InFlight(client) ==
    Cardinality({ t \in Tasks :
        /\ task[t].client = client
        /\ \E i \in task[t].stage .. Len(Flow(task[t].op)) :
              /\ i >= 1
              /\ Flow(task[t].op)[i] = "record"
              /\ (i > task[t].stage \/ task[t].pc \in {"record", "record_push"}) })

MayRecord(client) == Len(Entries(recorded, client)) + InFlight(client) < cap[client]

\* ---------------------------------------------------------------- actions
\* main: FeeConfig::from_env()
FromEnvCall ==
    /\ phase = "env"
    /\ cfg' = FromEnv(env)
    /\ phase' = "build"
    /\ UNCHANGED <<inner, counts_30d, lock, clock, task, recorded, obs,
                   registered, cap, env>>

\* main: Registry::new().with(connector)
With(k) ==
    /\ phase = "build"
    /\ inner' = RegistryWith(inner, k)
    /\ registered' = registered \cup {k}
    /\ UNCHANGED <<phase, cfg, counts_30d, lock, clock, task, recorded, obs, cap, env>>

\* main: Gateway::new(reg, fee_engine); the Registry is never changed again.
GatewayNew ==
    /\ phase = "build"
    /\ phase' = "serve"
    /\ UNCHANGED <<cfg, inner, counts_30d, lock, clock, task, recorded, obs,
                   registered, cap, env>>

\* The wall clock advances.
Tick ==
    /\ clock < MaxTime
    /\ clock' = clock + 1
    /\ UNCHANGED <<phase, cfg, inner, counts_30d, lock, task, recorded, obs,
                   registered, cap, env>>

\* A Gateway operation that starts with self.reg.get(cur)?: on an error the
\* call returns it at once, otherwise the call goes on with the connector.
Resolve(t, op, client, cur, amount) ==
    LET got == RegistryGet(inner, cur)
    IN  /\ phase = "serve"
        /\ task[t].pc = "idle"
        /\ task' = [task EXCEPT ![t] =
                IF got.tag = "Err"
                THEN [IdleTask EXCEPT !.op = op, !.client = client, !.cur = cur,
                                      !.amount = amount, !.pc = "done", !.res = got]
                ELSE Enter(op, client, cur, amount, got.val)]
        /\ obs' = [obs EXCEPT ![t] = NoObs]
        /\ UNCHANGED <<phase, cfg, inner, counts_30d, lock, clock, recorded,
                   registered, cap, env>>

\* Variant: fee_for runs before the connector is resolved.
CreateInvoiceFeeFirst(t, client, cur, amount) ==
    LET got == RegistryGet(inner, cur)
        v == PruneOlderThan(Entries(counts_30d, client), Window, clock)
    IN  IF got.tag = "Ok"
        THEN /\ MayRecord(client)
             /\ Resolve(t, "create_invoice", client, cur, amount)
        ELSE /\ phase = "serve"
             /\ task[t].pc = "idle"
             /\ lock = "free"
             /\ counts_30d' = Put(counts_30d, client, v)
             /\ task' = [task EXCEPT ![t] =
                     [IdleTask EXCEPT !.op = "create_invoice", !.client = client,
                                      !.cur = cur, !.amount = amount,
                                      !.pc = "done", !.res = got]]
             /\ obs' = [obs EXCEPT ![t] = NoObs]
             /\ UNCHANGED <<phase, cfg, inner, lock, clock, recorded, registered, cap, env>>

CreateInvoice(t, client, cur, amount) ==
    /\ RegistryGet(inner, cur).tag = "Ok" => MayRecord(client)
    /\ Resolve(t, "create_invoice", client, cur, amount)

CheckTx(t, cur) == Resolve(t, "check_tx", "", cur, 0)

Balance(t, cur) == Resolve(t, "balance", "", cur, 0)

\* A direct call of a FeeEngine method (fee_for is what the fee preview
\* handler calls through Gateway::fees).
EngineCall(t, op, client, amount) ==
    /\ phase = "serve"
    /\ task[t].pc = "idle"
    /\ task' = [task EXCEPT ![t] = Enter(op, client, "", amount, "")]
    /\ obs' = [obs EXCEPT ![t] = NoObs]
    /\ UNCHANGED <<phase, cfg, inner, counts_30d, lock, clock, recorded,
                   registered, cap, env>>

FeeFor(t, client, amount) == EngineCall(t, "fee_for", client, amount)

CurrentCount30d(t, client) == EngineCall(t, "current_count_30d", client, 0)

RecordTx(t, client) ==
    /\ MayRecord(client)
    /\ EngineCall(t, "record_tx", client, 0)

\* current_count_30d: self.counts_30d.write()
CountLock(t) ==
    /\ task[t].pc = "count"
    /\ lock = "free"
    /\ lock' = t
    /\ task' = [task EXCEPT ![t].pc = "count_locked"]
    /\ UNCHANGED <<phase, cfg, inner, counts_30d, clock, recorded, obs,
                   registered, cap, env>>

\* Variant: fee_for accounts the transaction it quotes.
CountPruneRecording(t) ==
    LET r == task[t]
        v == PruneOlderThan(Entries(counts_30d, r.client), Window, clock)
        n == Len(v)
        fee == AppliedFee(cfg, n, r.amount)
        r1 == [r EXCEPT !.count = n]
        r2 == IF r.op = "current_count_30d" THEN [r1 EXCEPT !.res = Ok(n)]
              ELSE IF r.op = "fee_for" THEN [r1 EXCEPT !.fee = fee, !.res = Ok(fee)]
              ELSE [r1 EXCEPT !.fee = fee]
    IN  /\ r.pc = "count_locked"
        /\ counts_30d' = Put(counts_30d, r.client,
                             IF r.op = "fee_for" THEN Append(v, clock) ELSE v)
        /\ lock' = "free"
        /\ task' = [task EXCEPT ![t] = Advance(r2)]
        /\ obs' = [obs EXCEPT ![t].feeClock = clock,
                              ![t].feeHist = Len(Entries(recorded, r.client))]
        /\ UNCHANGED <<phase, cfg, inner, clock, recorded, registered, cap, env>>

\* Variant: create_invoice keeps the guard of its fee computation until its
\* record_tx.
CountPruneHolding(t) ==
    LET r == task[t]
        v == PruneOlderThan(Entries(counts_30d, r.client), Window, clock)
        n == Len(v)
        fee == AppliedFee(cfg, n, r.amount)
        r1 == [r EXCEPT !.count = n]
        r2 == IF r.op = "current_count_30d" THEN [r1 EXCEPT !.res = Ok(n)]
              ELSE IF r.op = "fee_for" THEN [r1 EXCEPT !.fee = fee, !.res = Ok(fee)]
              ELSE [r1 EXCEPT !.fee = fee]
    IN  /\ r.pc = "count_locked"
        /\ counts_30d' = Put(counts_30d, r.client, v)
        /\ lock' = IF r.op = "create_invoice" THEN t ELSE "free"
        /\ task' = [task EXCEPT ![t] = Advance(r2)]
        /\ obs' = [obs EXCEPT ![t].feeClock = clock,
                              ![t].feeHist = Len(Entries(recorded, r.client))]
        /\ UNCHANGED <<phase, cfg, inner, clock, recorded, registered, cap, env>>

\* current_count_30d: entry().or_default(), prune, len, guard dropped; in
\* fee_for and create_invoice the tier and the fee follow from the count.
CountPrune(t) ==
    LET r == task[t]
        v == PruneOlderThan(Entries(counts_30d, r.client), Window, clock)
        n == Len(v)
        fee == AppliedFee(cfg, n, r.amount)
        r1 == [r EXCEPT !.count = n]
        r2 == IF r.op = "current_count_30d" THEN [r1 EXCEPT !.res = Ok(n)]
              ELSE IF r.op = "fee_for" THEN [r1 EXCEPT !.fee = fee, !.res = Ok(fee)]
              ELSE [r1 EXCEPT !.fee = fee]
    IN  /\ r.pc = "count_locked"
        /\ counts_30d' = Put(counts_30d, r.client, v)
        /\ lock' = "free"
        /\ task' = [task EXCEPT ![t] = Advance(r2)]
        /\ obs' = [obs EXCEPT ![t].feeClock = clock,
                              ![t].feeHist = Len(Entries(recorded, r.client))]
        /\ UNCHANGED <<phase, cfg, inner, clock, recorded,
                   registered, cap, env>>

\* Variant: record_tx goes on without waiting for the guard to be free.
RecordLockUnguarded(t) ==
    /\ task[t].pc = "record"
    /\ lock' = t
    /\ task' = [task EXCEPT ![t].pc = "record_push"]
    /\ UNCHANGED <<phase, cfg, inner, counts_30d, clock, recorded, obs,
                   registered, cap, env>>

\* record_tx: self.counts_30d.write()
RecordLock(t) ==
    /\ task[t].pc = "record"
    /\ lock = "free"
    /\ lock' = t
    /\ task' = [task EXCEPT ![t].pc = "record_push"]
    /\ UNCHANGED <<phase, cfg, inner, counts_30d, clock, recorded, obs,
                   registered, cap, env>>

\* Variant: the timestamp goes to the log of every client the map holds.
RecordPushAll(t) ==
    LET c == task[t].client
    IN  /\ task[t].pc = "record_push"
        /\ counts_30d' = [x \in DOMAIN counts_30d \cup {c} |->
                              Pushed(Entries(counts_30d, x), clock)]
        /\ recorded' = Put(recorded, c, Append(Entries(recorded, c), clock))
        /\ obs' = [obs EXCEPT ![t].ownIdx = Len(Entries(recorded, c)) + 1]
        /\ task' = [task EXCEPT ![t].pc = "record_prune"]
        /\ UNCHANGED <<phase, cfg, inner, lock, clock, registered, cap, env>>

\* record_tx: entry().or_default().push(SystemTime::now())
RecordPush(t) ==
    LET c == task[t].client
    IN  /\ task[t].pc = "record_push"
        /\ counts_30d' = Put(counts_30d, c, Pushed(Entries(counts_30d, c), clock))
        /\ recorded' = Put(recorded, c, Append(Entries(recorded, c), clock))
        /\ obs' = [obs EXCEPT ![t].ownIdx = Len(Entries(recorded, c)) + 1]
        /\ task' = [task EXCEPT ![t].pc = "record_prune"]
        /\ UNCHANGED <<phase, cfg, inner, lock, clock, registered, cap, env>>

\* Variant: create_invoice keeps the guard of its record_tx while the
\* connector call is pending.
RecordPruneKeepsGuard(t) ==
    LET r == task[t]
        v == PruneOlderThan(Entries(counts_30d, r.client), Window, clock)
        r1 == IF r.op = "record_tx" THEN [r EXCEPT !.res = Ok("unit")] ELSE r
    IN  /\ r.pc = "record_prune"
        /\ counts_30d' = Put(counts_30d, r.client, v)
        /\ lock' = IF r.op = "create_invoice" THEN lock ELSE "free"
        /\ task' = [task EXCEPT ![t] = Advance(r1)]
        /\ UNCHANGED <<phase, cfg, inner, clock, recorded, obs,
                   registered, cap, env>>

\* record_tx: prune_older_than(entries, 30 days), guard dropped
RecordPrune(t) ==
    LET r == task[t]
        v == PruneOlderThan(Entries(counts_30d, r.client), Window, clock)
        r1 == IF r.op = "record_tx" THEN [r EXCEPT !.res = Ok("unit")] ELSE r
    IN  /\ r.pc = "record_prune"
        /\ counts_30d' = Put(counts_30d, r.client, v)
        /\ lock' = "free"
        /\ task' = [task EXCEPT ![t] = Advance(r1)]
        /\ UNCHANGED <<phase, cfg, inner, clock, recorded, obs,
                   registered, cap, env>>

\* The connector method is called and its future awaited.
Invoke(t) ==
    /\ task[t].pc = "call"
    /\ task' = [task EXCEPT ![t].pc = "wait"]
    /\ obs' = [obs EXCEPT ![t].invoked = @ + 1]
    /\ UNCHANGED <<phase, cfg, inner, counts_30d, lock, clock, recorded,
                   registered, cap, env>>

\* What the Gateway operation returns for the connector's output out: an
\* error as it is, create_invoice's pair with the fee computed before,
\* and a status or balance as it is.
Outcome(r, out) ==
    IF out.tag = "Ok" /\ r.op = "create_invoice"
    THEN Ok([address |-> out.val.address, invoice_id |-> out.val.invoice_id,
             fee |-> r.fee])
    ELSE out

\* Variant: a failed create_payment_request takes the recorded transaction
\* back.
ConnectorReturnRollback(t, out) ==
    LET r == task[t]
        v == Entries(counts_30d, r.client)
    IN  /\ r.pc = "wait"
        /\ out \in ConnectorOutputs(r.op, r.conn)
        /\ lock = "free"
        /\ task' = [task EXCEPT ![t] = Advance([r EXCEPT !.res = Outcome(r, out)])]
        /\ obs' = [obs EXCEPT ![t].connOut = out]
        /\ counts_30d' =
              IF out.tag = "Err" /\ r.op = "create_invoice" /\ v # <<>>
              THEN Put(counts_30d, r.client, SubSeq(v, 1, Len(v) - 1))
              ELSE counts_30d
        /\ UNCHANGED <<phase, cfg, inner, lock, clock, recorded, registered, cap, env>>

\* Variant: a failed connector call is tried once more.
ConnectorReturnRetry(t, out) ==
    LET r == task[t]
    IN  /\ r.pc = "wait"
        /\ out \in ConnectorOutputs(r.op, r.conn)
        /\ task' = [task EXCEPT ![t] =
                IF out.tag = "Err" /\ obs[t].invoked < 2
                THEN [r EXCEPT !.pc = "call"]
                ELSE Advance([r EXCEPT !.res = Outcome(r, out)])]
        /\ obs' = [obs EXCEPT ![t].connOut = out]
        /\ UNCHANGED <<phase, cfg, inner, counts_30d, lock, clock, recorded,
                       registered, cap, env>>

\* The connector call completes with out.
ConnectorReturn(t, out) ==
    /\ task[t].pc = "wait"
    /\ out \in ConnectorOutputs(task[t].op, task[t].conn)
    /\ task' = [task EXCEPT ![t] = Advance([task[t] EXCEPT !.res = Outcome(task[t], out)])]
    /\ obs' = [obs EXCEPT ![t].connOut = out]
    /\ UNCHANGED <<phase, cfg, inner, counts_30d, lock, clock, recorded,
                   registered, cap, env>>

AllOutputs == UNION { ConnectorOutputs(op, k) :
                        op \in {"create_invoice", "check_tx", "balance"},
                        k \in ConnectorIds }

\* The caller takes the result; the task is free for its next request.
Return(t) ==
    /\ task[t].pc = "done"
    /\ task' = [task EXCEPT ![t] = IdleTask]
    /\ obs' = [obs EXCEPT ![t] = NoObs]
    /\ UNCHANGED <<phase, cfg, inner, counts_30d, lock, clock, recorded,
                   registered, cap, env>>

\* --------------------------------------------------------- specifications
\* FEE_TIERS values main may find.
EnvInputs == { EnvOf(<< <<Num(2), Num(4)>>, <<Num(0), Num(5)>> >>) }

\* The state after FeeConfig::from_env, FeeEngine::new and Registry::new,
\* with the tasks of on ready; alice may record n transactions and every
\* other client one.
InitWith(envs, on, n) ==
    /\ phase = "build"
    /\ env \in envs
    /\ cfg = FromEnv(env)
    /\ inner = RegistryNew
    /\ counts_30d = [c \in {} |-> <<>>]
    /\ lock = "free"
    /\ clock = 0
    /\ task = [t \in Tasks |-> IF t \in on THEN IdleTask ELSE OffTask]
    /\ recorded = [c \in {} |-> <<>>]
    /\ obs = [t \in Tasks |-> NoObs]
    /\ registered = {}
    /\ cap = [c \in Clients |-> IF c = "alice" THEN n ELSE 1]

Init == InitWith(EnvInputs, {"t1"}, MaxRecords)

Serve(amounts) ==
    \E t \in Tasks :
        \/ \E c \in Clients, cur \in CallCurrencies, a \in amounts :
              CreateInvoice(t, c, cur, a)
        \/ \E cur \in CallCurrencies : CheckTx(t, cur)
        \/ \E cur \in CallCurrencies : Balance(t, cur)
        \/ \E c \in Clients, a \in amounts : FeeFor(t, c, a)
        \/ \E c \in Clients : CurrentCount30d(t, c)
        \/ \E c \in Clients : RecordTx(t, c)
        \/ CountLock(t)
        \/ CountPrune(t)
        \/ RecordLock(t)
        \/ RecordPush(t)
        \/ RecordPrune(t)
        \/ Invoke(t)
        \/ \E out \in AllOutputs : ConnectorReturn(t, out)
        \/ Return(t)

Next ==
    \/ \E k \in ConnectorIds : With(k)
    \/ GatewayNew
    \/ Tick
    \/ Serve(TimedAmounts)

\* One caller at a time, wall clock running.
Spec == Init /\ [][Next]_vars

\* FEE_TIERS values of the volume runs: unset, unsorted, without a
\* threshold-0 tier, with a repeated threshold, unparseable, and with a
\* negative rate.
VolumeEnvInputs ==
    { EnvUnset,
      EnvOf(<< <<Num(0), Neg(4)>>, <<Num(2), Num(3)>> >>),
      EnvOf(<< <<Num(2), Num(4)>>, <<Num(0), Num(5)>> >>),
      EnvOf(<< <<Num(4), Num(3)>>, <<Num(2), Num(4)>> >>),
      EnvOf(<< <<Num(0), Num(5)>>, <<Num(2), Num(4)>>, <<Num(2), Num(3)>> >>),
      EnvOf(<< <<Junk, Num(4)>>, <<Num(7)>> >>) }

\* The server as main leaves it, with a connector for BTC registered, and
\* one client that may record up to VolumeRecords transactions.
InitVolume ==
    /\ phase = "serve"
    /\ env \in VolumeEnvInputs
    /\ cfg = FromEnv(env)
    /\ inner = RegistryWith(RegistryNew, "k1")
    /\ counts_30d = [c \in {} |-> <<>>]
    /\ lock = "free"
    /\ clock = 0
    /\ task = [t \in Tasks |-> IF t = "t1" THEN IdleTask ELSE OffTask]
    /\ recorded = [c \in {} |-> <<>>]
    /\ obs = [t \in Tasks |-> NoObs]
    /\ registered = {"k1"}
    /\ cap = [c \in Clients |-> IF c = "alice" THEN VolumeRecords ELSE 0]

NextVolume == Serve(Amounts)

\* One caller at a time, all within one instant of the wall clock.
SpecVolume == InitVolume /\ [][NextVolume]_vars

\* FEE_TIERS value of the concurrent runs: the second tier starts at one
\* transaction.
ConcEnvInputs == { EnvOf(<< <<Num(1), Num(4)>>, <<Num(0), Num(5)>> >>) }

\* The server as main leaves it, with a connector for BTC registered and
\* every task ready.
InitConc ==
    /\ phase = "serve"
    /\ env \in ConcEnvInputs
    /\ cfg = FromEnv(env)
    /\ inner = RegistryWith(RegistryNew, "k1")
    /\ counts_30d = [c \in {} |-> <<>>]
    /\ lock = "free"
    /\ clock = 0
    /\ task = [t \in Tasks |-> IdleTask]
    /\ recorded = [c \in {} |-> <<>>]
    /\ obs = [t \in Tasks |-> NoObs]
    /\ registered = {"k1"}
    /\ cap = [c \in Clients |-> IF c = "alice" THEN MaxRecords ELSE 1]

\* The operations that touch the FeeEngine, called by any task at any time.
ServeConc ==
    \E t \in Tasks :
        \/ \E c \in Clients, a \in TimedAmounts : CreateInvoice(t, c, "BTC", a)
        \/ \E c \in Clients, a \in TimedAmounts : FeeFor(t, c, a)
        \/ \E c \in Clients : RecordTx(t, c)
        \/ CountLock(t)
        \/ CountPrune(t)
        \/ RecordLock(t)
        \/ RecordPush(t)
        \/ RecordPrune(t)
        \/ Invoke(t)
        \/ \E out \in AllOutputs : ConnectorReturn(t, out)
        \/ Return(t)

NextConc == Tick \/ ServeConc

\* Concurrent callers, wall clock running.
SpecConc == InitConc /\ [][NextConc]_vars

\* Every operation of the Gateway and the FeeEngine, called by any task, all
\* within one instant of the wall clock.
ServeFair ==
    \E t \in Tasks :
        \/ \E c \in Clients, a \in TimedAmounts : CreateInvoice(t, c, "BTC", a)
        \/ CheckTx(t, "BTC")
        \/ Balance(t, "BTC")
        \/ \E c \in Clients, a \in TimedAmounts : FeeFor(t, c, a)
        \/ \E c \in Clients : CurrentCount30d(t, c)
        \/ \E c \in Clients : RecordTx(t, c)
        \/ CountLock(t)
        \/ CountPrune(t)
        \/ RecordLock(t)
        \/ RecordPush(t)
        \/ RecordPrune(t)
        \/ Invoke(t)
        \/ \E out \in AllOutputs : ConnectorReturn(t, out)
        \/ Return(t)

NextFair == ServeFair

\* What the scheduling guarantees: a task that is running goes on through
\* the statements of a FeeEngine method (weak fairness), and a task waiting
\* for the write guard gets it if the guard keeps becoming free (the lock is
\* eventually fair).  Nothing is guaranteed of the connectors or the callers:
\* a connector call may stay pending forever.
Fairness ==
    \A t \in Tasks :
        /\ SF_vars(CountLock(t))
        /\ SF_vars(RecordLock(t))
        /\ WF_vars(CountPrune(t))
        /\ WF_vars(RecordPush(t))
        /\ WF_vars(RecordPrune(t))

\* Concurrent callers under fair scheduling of the FeeEngine's steps.
SpecFair == InitConc /\ [][NextFair]_vars /\ Fairness

\* The tokens a colon-separated piece of FEE_TIERS may be: an integer, text
\* that is no number (the empty piece included), a negative rate.
ConfigTokens == { Num(0), Num(2), Junk, Neg(4) }

\* The comma-separated parts: one token, a pair, or a pair followed by more.
ConfigParts ==
    { <<a>> : a \in ConfigTokens }
        \cup { <<a, b>> : a \in ConfigTokens, b \in ConfigTokens }
        \cup { <<a, b, Junk>> : a \in ConfigTokens, b \in ConfigTokens }

\* The lists of one to n parts (split(',') never yields an empty list).
RECURSIVE PartLists(_)
PartLists(n) ==
    IF n = 1 THEN { <<p>> : p \in ConfigParts }
    ELSE PartLists(n - 1) \cup
         { Append(l, p) : l \in { x \in PartLists(n - 1) : Len(x) = n - 1 },
                          p \in ConfigParts }

\* FEE_TIERS values of the configuration runs: unset, or any string of up to
\* MaxParts parts.
ConfigEnvInputs == { EnvUnset } \cup { EnvOf(l) : l \in PartLists(MaxParts) }

\* main before FeeConfig::from_env.
InitConfig ==
    /\ phase = "env"
    /\ env \in ConfigEnvInputs
    /\ cfg = <<>>
    /\ inner = RegistryNew
    /\ counts_30d = [c \in {} |-> <<>>]
    /\ lock = "free"
    /\ clock = 0
    /\ task = [t \in Tasks |-> OffTask]
    /\ recorded = [c \in {} |-> <<>>]
    /\ obs = [t \in Tasks |-> NoObs]
    /\ registered = {}
    /\ cap = [c \in Clients |-> 0]

NextConfig == FromEnvCall

\* The construction of the fee configuration alone, for every input.
SpecConfig == InitConfig /\ [][NextConfig]_vars

\* ------------------------------------------------------------- properties
\* The number of timestamps of v that are not older than the window at now.
InWindow(v, now) == Cardinality({ i \in DOMAIN v : v[i] >= now - Window })

\* The client's 30-day count as a current_count_30d call would report it now.
CountNow(client) == InWindow(Entries(counts_30d, client), clock)

\* The count the call of task t read for its fee: the transactions recorded
\* before that read and within the window at the time of the read.
CountRead(t) ==
    LET h == Entries(recorded, task[t].client)
    IN  InWindow(SubSeq(h, 1, obs[t].feeHist), obs[t].feeClock)

\* Task t's create_invoice has returned the error of its connector call.
ConnectorFailed(t) ==
    /\ task[t].pc = "done"
    /\ task[t].op = "create_invoice"
    /\ task[t].res.tag = "Err"
    /\ obs[t].invoked >= 1

\* No transaction the call of t counted or recorded has left the window.
NothingExpired(t) ==
    LET h == Entries(recorded, task[t].client)
    IN  \A i \in DOMAIN h :
            h[i] >= obs[t].feeClock - Window => h[i] >= clock - Window

\* C1: a create_invoice for a currency without a registered connector is over
\* in its first step with an error; that step leaves the FeeEngine's log and
\* the lock as they were (a fresh client stays absent, count 0) and calls no
\* connector.
C1_UnresolvedFailsFirst ==
    [][ \A t \in Tasks :
          ( /\ task[t].pc = "idle"
            /\ task'[t].op = "create_invoice"
            /\ task'[t].cur \notin { ConnCurrency(k) : k \in registered } )
          => ( /\ task'[t].pc = "done"
               /\ task'[t].res.tag = "Err"
               /\ task'[t].fee = NoValue
               /\ counts_30d' = counts_30d
               /\ recorded' = recorded
               /\ lock' = lock
               /\ obs'[t].invoked = 0
               /\ obs'[t].feeHist = -1 ) ]_vars

\* C1 witness: with a connector for BTC registered, a create_invoice for
\* another currency has failed for a client the FeeEngine has never seen.
C1_Witness ==
    \E t \in Tasks :
        /\ task[t].pc = "done"
        /\ task[t].op = "create_invoice"
        /\ task[t].res.tag = "Err"
        /\ obs[t].invoked = 0
        /\ "BTC" \in DOMAIN inner
        /\ task[t].cur \notin DOMAIN inner
        /\ task[t].client \notin DOMAIN counts_30d
        /\ CountNow(task[t].client) = 0

\* C2: when create_invoice returns the error of its connector call, it
\* returns that error, the call's timestamp has been recorded, and, unless a
\* counted transaction has left the window meanwhile, the client's 30-day
\* count is exactly one higher than the count the call read before recording.
C2_RecordingNotRolledBack ==
    \A t \in Tasks :
        ConnectorFailed(t) =>
            /\ task[t].res = obs[t].connOut
            /\ obs[t].ownIdx = obs[t].feeHist + 1
            /\ NothingExpired(t) => CountNow(task[t].client) = CountRead(t) + 1

\* C2 witness: a failed create_invoice of a client with an earlier
\* transaction, nothing expired: the count went from one to two.
C2_Witness ==
    \E t \in Tasks :
        /\ ConnectorFailed(t)
        /\ NothingExpired(t)
        /\ CountRead(t) = 1
        /\ CountNow(task[t].client) = 2

\* C3: in a create_invoice call the fee is the one for the count read before
\* the call's own record_tx: the call's timestamp comes after every counted
\* one, the fee is not computed again, and the fee returned is that fee.  With
\* the default schedule a call made at count 99 gets rate 0.005 and a call
\* made at count 100 gets rate 0.004.
C3_FeeFromCountBeforeRecord ==
    \A t \in Tasks :
        (task[t].op = "create_invoice" /\ obs[t].feeHist >= 0) =>
            /\ task[t].fee = AppliedFee(cfg, CountRead(t), task[t].amount)
            /\ obs[t].ownIdx > 0 => obs[t].ownIdx > obs[t].feeHist
            /\ (task[t].pc = "done" /\ task[t].res.tag = "Ok") =>
                  /\ task[t].res.val.fee = task[t].fee
                  /\ obs[t].ownIdx > obs[t].feeHist
                  /\ (cfg = Defaults /\ CountRead(t) = 99) =>
                        task[t].res.val.fee.percent = 5
                  /\ (cfg = Defaults /\ CountRead(t) = 100) =>
                        task[t].res.val.fee.percent = 4

\* C3 witness: default schedule, an invoice created at count 99 got rate
\* 0.005 and the count is now 100.
C3_Witness ==
    \E t \in Tasks :
        /\ cfg = Defaults
        /\ task[t].op = "create_invoice"
        /\ task[t].pc = "done"
        /\ task[t].res.tag = "Ok"
        /\ CountRead(t) = 99
        /\ task[t].res.val.fee.percent = 5
        /\ CountNow(task[t].client) = 100

\* The tiers whose threshold does not exceed count c.
Eligible(tiers, c) == { i \in DOMAIN tiers : tiers[i].min_tx_count_30d <= c }

\* Among them, those with the greatest threshold.
GreatestEligible(tiers, c) ==
    { i \in Eligible(tiers, c) :
        \A j \in Eligible(tiers, c) :
            tiers[j].min_tx_count_30d <= tiers[i].min_tx_count_30d }

\* The last index of a non-empty set of indices.
Last(S) == CHOOSE i \in S : \A j \in S : j <= i

\* Task t's fee_for has returned.
FeeForDone(t) ==
    task[t].pc = "done" /\ task[t].op = "fee_for" /\ task[t].res.tag = "Ok"

\* C4 as stated: fee_for applies the percent of a tier with the greatest
\* threshold not above the client's count (the transactions recorded within
\* the window when fee_for reads it), for every sorted non-empty
\* configuration.
C4_AsStated ==
    \A t \in Tasks :
        FeeForDone(t) =>
            \E i \in GreatestEligible(cfg, CountRead(t)) :
                task[t].res.val.percent = cfg[i].percent

\* C4 as amended: fee_for applies the percent of the last tier in list order
\* among those with the greatest threshold not above the client's count, and
\* the percent of the first tier when every threshold is above the count.
\* With the default schedule a fresh client is charged 0.005 (5.0 on 1000)
\* and a client with 100 recorded transactions 0.004 (4.0 on 1000).
C4_TierSelection ==
    \A t \in Tasks :
        FeeForDone(t) =>
            LET n == CountRead(t)
                fee == task[t].res.val
            IN  /\ Eligible(cfg, n) # {} =>
                      fee.percent = cfg[Last(GreatestEligible(cfg, n))].percent
                /\ Eligible(cfg, n) = {} => fee.percent = cfg[1].percent
                /\ (cfg = Defaults /\ n = 0 /\ task[t].amount = 1000) =>
                      (fee.percent = 5 /\ fee.fee_amount = 5000)
                /\ (cfg = Defaults /\ n = 100 /\ task[t].amount = 1000) =>
                      (fee.percent = 4 /\ fee.fee_amount = 4000)

\* C4 witness: default schedule, after 100 record_tx calls fee_for on 1000
\* returned rate 0.004 and fee 4.0.
C4_Witness ==
    \E t \in Tasks :
        /\ FeeForDone(t)
        /\ cfg = Defaults
        /\ Len(Entries(recorded, task[t].client)) = 100
        /\ CountRead(t) = 100
        /\ task[t].amount = 1000
        /\ task[t].res.val = [percent |-> 4, fee_amount |-> 4000]

\* The timestamps of v that are not older than the window at now, in order.
Recent(v, now) == SelectSeq(v, LAMBDA x : x >= now - Window)

\* This step is one of task t's fee_for call.
FeeForStep(t) ==
    /\ task'[t] # task[t]
    /\ task[t].op = "fee_for" \/ task'[t].op = "fee_for"

\* C5 as stated: no step of a fee_for call changes the FeeEngine's
\* client-to-timestamps mapping.
C5_AsStated ==
    [][ \A t \in Tasks : FeeForStep(t) => counts_30d' = counts_30d ]_vars

\* C5 as amended: a fee_for call never adds a timestamp and changes no
\* client's 30-day count: it leaves every other client's entry alone and
\* leaves of its own client's log the timestamps within the window (an empty
\* log for a client never seen); a timestamp is added only by the push of a
\* record_tx, called directly or from create_invoice.
C5_FeeForOnlyPrunes ==
    [][ /\ \A t \in Tasks : FeeForStep(t) =>
              /\ recorded' = recorded
              /\ \A c \in Clients :
                    /\ InWindow(Entries(counts_30d', c), clock)
                         = InWindow(Entries(counts_30d, c), clock)
                    /\ c # task'[t].client =>
                          /\ Entries(counts_30d', c) = Entries(counts_30d, c)
                          /\ c \in DOMAIN counts_30d' <=> c \in DOMAIN counts_30d
                    /\ c = task'[t].client =>
                          Entries(counts_30d', c) \in
                              { Entries(counts_30d, c),
                                Recent(Entries(counts_30d, c), clock) }
        /\ \A c \in Clients :
              Len(Entries(counts_30d', c)) > Len(Entries(counts_30d, c)) =>
                  \E t \in Tasks :
                      /\ task[t].pc = "record_push"
                      /\ task[t].client = c
                      /\ task[t].op \in {"record_tx", "create_invoice"} ]_vars

\* C5 witness: fee_for has returned for a client no transaction was ever
\* recorded for, and the map now holds an (empty) entry for that client.
C5_Witness ==
    \E t \in Tasks :
        /\ FeeForDone(t)
        /\ task[t].client \notin DOMAIN recorded
        /\ task[t].client \in DOMAIN counts_30d
        /\ counts_30d[task[t].client] = <<>>

\* C6: after the prune of a record_tx or current_count_30d call the client's
\* log holds exactly the recorded timestamps that are not older than 30 days
\* at the time of the prune, none of them in the future, and
\* current_count_30d returns their number.
C6_PruneKeepsWindow ==
    [][ \A t \in Tasks :
          ( /\ task[t].pc \in {"count_locked", "record_prune"}
            /\ task'[t].pc # task[t].pc )
          => LET c == task[t].client
                 v == Entries(counts_30d', c)
                 h == Entries(recorded', c)
             IN  /\ \A i \in DOMAIN v : v[i] >= clock - Window /\ v[i] <= clock
                 /\ v = Recent(h, clock)
                 /\ task[t].pc = "count_locked" =>
                       /\ task'[t].count = InWindow(h, clock)
                       /\ task[t].op = "current_count_30d" =>
                             task'[t].res = Ok(InWindow(h, clock)) ]_vars

\* C6 witness: current_count_30d returned 1 for a client with an expired
\* transaction and a newer one.
C6_Witness ==
    \E t \in Tasks :
        /\ task[t].pc = "done"
        /\ task[t].op = "current_count_30d"
        /\ task[t].res = Ok(1)
        /\ LET h == Entries(recorded, task[t].client)
           IN  /\ Len(h) = 2
               /\ h[1] < clock - Window
               /\ h[2] >= clock - Window

\* While none of the client's recorded transactions has left the window,
\* the log holds one timestamp per record_tx call made.
OnePerCall(c) ==
    LET h == Entries(recorded, c)
    IN  (\A i \in DOMAIN h : h[i] >= clock - Window) =>
            /\ Len(Entries(counts_30d, c)) = Len(h)
            /\ CountNow(c) = Len(h)

\* C7: every push of record_tx makes the client's log one timestamp longer,
\* also when the same timestamp is there already, and with no transaction
\* expired the 30-day count is the number of record_tx calls made: two calls
\* raise it by two.
C7_RecordTxNotIdempotent ==
    [][ /\ \A t \in Tasks :
              (task[t].pc = "record_push" /\ task'[t].pc = "record_prune") =>
                  Len(Entries(counts_30d', task[t].client))
                      = Len(Entries(counts_30d, task[t].client)) + 1
        /\ \A c \in Clients : OnePerCall(c)' ]_vars

\* C7 witness: record_tx has returned after the second recording of one
\* instant, and the log holds both timestamps.
C7_Witness ==
    \E t \in Tasks :
        /\ task[t].pc = "done"
        /\ task[t].op = "record_tx"
        /\ LET h == Entries(recorded, task[t].client)
           IN  /\ Len(h) = 2
               /\ h[1] = h[2]
               /\ counts_30d[task[t].client] = h
               /\ CountNow(task[t].client) = 2

\* The kinds of the errors Registry.get gives for the currencies without a
\* connector.
ResolutionKinds ==
    { RegistryGet(inner, c).err.variant : c \in Currency \ DOMAIN inner }

\* C8 as stated: the kind of an error returned from a connector call is
\* never the kind of the error Registry.get gives for a missing connector.
C8_StageIdentified ==
    \A t \in Tasks :
        ( /\ task[t].pc = "done"
          /\ task[t].res.tag = "Err"
          /\ obs[t].invoked >= 1 )
        => task[t].res.err.variant \notin ResolutionKinds

\* Task t's Gateway call (create_invoice, check_tx, balance) has returned.
GatewayDone(t) ==
    /\ task[t].pc = "done"
    /\ task[t].op \in {"create_invoice", "check_tx", "balance"}

\* C9: a Gateway call invokes its connector at most once; what the connector
\* returned is what the call returns: an error unchanged, a status or balance
\* unchanged, an address and invoice id unchanged beside the fee; a call that
\* invoked no connector returns the error of Registry.get.
C9_NoRetryNoRecovery ==
    \A t \in Tasks :
        /\ obs[t].invoked <= 1
        /\ GatewayDone(t) =>
              LET out == obs[t].connOut
                  res == task[t].res
              IN  /\ obs[t].invoked = 0 =>
                        (out = NoValue /\ res = RegistryGet(inner, task[t].cur)
                                       /\ res.tag = "Err")
                  /\ obs[t].invoked = 1 =>
                        /\ out \in ConnectorOutputs(task[t].op, inner[task[t].cur])
                        /\ out.tag = "Err" => res = out
                        /\ (out.tag = "Ok" /\ task[t].op # "create_invoice") => res = out
                        /\ (out.tag = "Ok" /\ task[t].op = "create_invoice") =>
                              /\ res.tag = "Ok"
                              /\ res.val.address = out.val.address
                              /\ res.val.invoice_id = out.val.invoice_id

\* C9 witness: a check_tx whose connector failed with a network error
\* returned that error after one invocation.
C9_Witness ==
    \E t \in Tasks :
        /\ GatewayDone(t)
        /\ task[t].op = "check_tx"
        /\ obs[t].invoked = 1
        /\ obs[t].connOut = Err([variant |-> "Network", msg |-> <<"detail">>])
        /\ task[t].res = obs[t].connOut

\* The currencies Registry::with was called for.
RegisteredCurrencies == { ConnCurrency(k) : k \in registered }

\* C10: Registry.get succeeds exactly for the currencies a connector was
\* registered for, with a connector of that currency, and fails for every
\* other currency with the error naming that currency.
C10_GetFailsIffUnregistered ==
    \A c \in Currency :
        LET got == RegistryGet(inner, c)
        IN  /\ c \in RegisteredCurrencies =>
                  (got.tag = "Ok" /\ got.val \in registered /\ ConnCurrency(got.val) = c)
            /\ c \notin RegisteredCurrencies =>
                  got = Err([variant |-> "Unknown", msg |-> <<"no connector for", c>>])

\* C10 witness: after the one registration of a BTC connector get(BTC)
\* succeeds and get(ETH) fails.
C10_Witness ==
    /\ registered = {"k1"}
    /\ RegistryGet(inner, "BTC") = Ok("k1")
    /\ RegistryGet(inner, "ETH").tag = "Err"

\* The percents of the tiers of the configuration.
TierPercents == { cfg[i].percent : i \in DOMAIN cfg }

\* C11 as stated: the fee_amount fee_for returns for an amount >= 0 is never
\* negative and, for an amount > 0, is the amount times the percent of the
\* selected tier, for every tier percent in the configuration.
C11_AsStated ==
    \A t \in Tasks :
        (FeeForDone(t) /\ task[t].amount >= 0) =>
            LET fee == task[t].res.val
            IN  /\ fee.percent \in TierPercents
                /\ fee.fee_amount >= 0
                /\ task[t].amount > 0 =>
                      fee.fee_amount = task[t].amount * fee.percent

\* C11 as amended: the fee_amount fee_for returns for an amount >= 0 is never
\* negative; it is the amount times the percent of the selected tier when
\* that percent is not negative, and zero when it is negative.
C11_FeeAmountClamped ==
    \A t \in Tasks :
        (FeeForDone(t) /\ task[t].amount >= 0) =>
            LET fee == task[t].res.val
            IN  /\ fee.percent \in TierPercents
                /\ fee.fee_amount >= 0
                /\ fee.percent >= 0 =>
                      fee.fee_amount = task[t].amount * fee.percent
                /\ fee.percent < 0 => fee.fee_amount = 0

\* C11 witness: fee_for on 1000 selected a tier with a negative percent and
\* returned the fee 0.
C11_Witness ==
    \E t \in Tasks :
        /\ FeeForDone(t)
        /\ task[t].amount = 1000
        /\ task[t].res.val.percent < 0
        /\ task[t].res.val.fee_amount = 0

\* Task t is inside the critical section of the per-client log.
Holding(t) == task[t].pc \in {"count_locked", "record_push", "record_prune"}

\* The calls in progress that have passed their recording step for client c.
Recorders(c) ==
    { t \in Tasks : /\ task[t].client = c
                    /\ task[t].op \in {"create_invoice", "record_tx"}
                    /\ obs[t].ownIdx > 0 }

\* C12: record_tx and current_count_30d (also inside fee_for and
\* create_invoice) are never inside the log's critical section together: a
\* task is inside exactly while it holds the guard.  No recorded transaction
\* is lost: concurrent calls that have passed their recording step have each
\* appended an entry of their own, and while none of the client's recorded
\* transactions has left the window the client's count is the number of
\* recording steps passed.
C12_ExclusiveNoLostRecord ==
    /\ \A t1, t2 \in Tasks : (Holding(t1) /\ Holding(t2)) => t1 = t2
    /\ \A t \in Tasks : Holding(t) <=> lock = t
    /\ \A c \in Clients :
          /\ \A t1, t2 \in Recorders(c) :
                t1 # t2 => obs[t1].ownIdx # obs[t2].ownIdx
          /\ (\A i \in DOMAIN Entries(recorded, c) :
                   Entries(recorded, c)[i] >= clock - Window)
                => /\ CountNow(c) = Len(Entries(recorded, c))
                   /\ CountNow(c) >= Cardinality(Recorders(c))

\* C12 witness: a create_invoice and a record_tx of one client, both in
\* progress and both past their recording step, and the count is two.
C12_Witness ==
    \E t1, t2 \in Tasks :
        /\ t1 # t2
        /\ task[t1].op = "create_invoice"
        /\ task[t2].op = "record_tx"
        /\ {t1, t2} \subseteq Recorders(task[t1].client)
        /\ Len(Entries(recorded, task[t1].client)) = 2
        /\ CountNow(task[t1].client) = 2

\* Tasks t1 and t2 are in create_invoice calls for one client whose fee
\* computations read the log in the same state.
SameRead(t1, t2) ==
    /\ t1 # t2
    /\ task[t1].op = "create_invoice"
    /\ task[t2].op = "create_invoice"
    /\ task[t1].client = task[t2].client
    /\ obs[t1].feeHist >= 0
    /\ obs[t1].feeHist = obs[t2].feeHist
    /\ obs[t1].feeClock = obs[t2].feeClock

\* C13: a create_invoice call does not hold the guard between its fee
\* computation and its record_tx; two concurrent calls for one client that
\* read the same count get the same tier, neither call's own timestamp is
\* among the ones it counted, and once both have recorded, with no counted
\* transaction expired and no further caller, the count is two higher than
\* the count both read.
C13_SameCountSameTier ==
    /\ \A t \in Tasks : task[t].pc \in {"record", "call", "wait", "done"} => lock # t
    /\ \A t1, t2 \in Tasks :
          SameRead(t1, t2) =>
              /\ task[t1].count = task[t2].count
              /\ task[t1].fee.percent = task[t2].fee.percent
              /\ (obs[t1].ownIdx > 0 /\ obs[t2].ownIdx > 0) =>
                    /\ obs[t1].ownIdx > obs[t1].feeHist
                    /\ obs[t2].ownIdx > obs[t1].feeHist
                    /\ NothingExpired(t1) =>
                          CountNow(task[t1].client) = CountRead(t1) + 2

\* C13 witness: two create_invoice calls of one client have both returned the
\* threshold-0 rate computed at count 0 although the second tier starts at
\* count 1, and the count is now 2.
C13_Witness ==
    \E t1, t2 \in Tasks :
        /\ SameRead(t1, t2)
        /\ task[t1].pc = "done" /\ task[t1].res.tag = "Ok"
        /\ task[t2].pc = "done" /\ task[t2].res.tag = "Ok"
        /\ CountRead(t1) = 0
        /\ task[t1].res.val.fee.percent = cfg[1].percent
        /\ task[t2].res.val.fee.percent = cfg[1].percent
        /\ AppliedFee(cfg, 1, task[t2].amount).percent # cfg[1].percent
        /\ CountNow(task[t1].client) = 2

\* The part is a threshold:rate pair: exactly two tokens, an unsigned integer
\* and a number.
WellFormed(part) == Len(part) = 2 /\ part[1].u # <<>> /\ part[2].f # <<>>

\* The part is one from_env makes a tier of.
Accepted(part) == Len(part) >= 2 /\ part[1].u # <<>> /\ part[2].f # <<>>

\* FEE_TIERS is set and some part of it is not a threshold:rate pair (the
\* empty string is one such part).
Malformed(e) == e.set /\ \E i \in DOMAIN e.parts : ~WellFormed(e.parts[i])

\* FeeConfig::from_env has returned.
ConfigBuilt == phase # "env"

\* The thresholds of the default schedule.
DefaultThresholds == <<0, 100, 1000, 10000, 100000>>

\* C14 as stated: from_env returns the default five-tier schedule whenever
\* FEE_TIERS is absent, empty or malformed.
C14_AsStated ==
    (ConfigBuilt /\ (~env.set \/ Malformed(env))) =>
        /\ cfg = Defaults
        /\ [i \in DOMAIN cfg |-> cfg[i].min_tx_count_30d] = DefaultThresholds

\* C14 as amended: from_env returns the default five-tier schedule whenever
\* FEE_TIERS is absent or none of its parts begins with an unsigned integer
\* and a number (the empty string included); otherwise the parts that do not
\* are skipped and the schedule has one tier for each part that does.  It
\* always returns a schedule.
C14_FallbackWhenNothingParses ==
    ConfigBuilt =>
        LET ok == { i \in DOMAIN env.parts : Accepted(env.parts[i]) }
        IN  /\ cfg # <<>>
            /\ (~env.set \/ ok = {}) =>
                  /\ cfg = Defaults
                  /\ [i \in DOMAIN cfg |-> cfg[i].min_tx_count_30d] = DefaultThresholds
            /\ (env.set /\ ok # {}) =>
                  /\ Len(cfg) = Cardinality(ok)
                  /\ \A i \in ok :
                        \E j \in DOMAIN cfg :
                            cfg[j] = FeeTier(env.parts[i][1].u[1], env.parts[i][2].f[1])
                  /\ \A j \in DOMAIN cfg :
                        \E i \in ok :
                            cfg[j] = FeeTier(env.parts[i][1].u[1], env.parts[i][2].f[1])

\* C14 witness: FEE_TIERS was set to two parts neither of which is a pair of
\* numbers, and from_env returned the default schedule.
C14_Witness ==
    /\ ConfigBuilt
    /\ env.set
    /\ Len(env.parts) = 2
    /\ \A i \in DOMAIN env.parts : ~Accepted(env.parts[i])
    /\ cfg = Defaults

\* C15: the tier list from_env returns (the default schedule included) is
\* never empty and is in ascending order of min_tx_count_30d, whatever the
\* order of the pairs in FEE_TIERS, so fee_for has a first tier to start from.
C15_NonEmptySorted ==
    ConfigBuilt =>
        /\ Len(cfg) >= 1
        /\ ChooseTier(cfg, 0) \in { cfg[i] : i \in DOMAIN cfg }
        /\ \A i, j \in DOMAIN cfg :
              i < j => cfg[i].min_tx_count_30d <= cfg[j].min_tx_count_30d

\* C15 witness: FEE_TIERS gave threshold 2 before threshold 0 and the
\* configuration has them in ascending order.
C15_Witness ==
    /\ ConfigBuilt
    /\ env = EnvOf(<< <<Num(2), Num(0)>>, <<Num(0), Num(2)>> >>)
    /\ cfg = << FeeTier(0, 2), FeeTier(2, 0) >>

\* C16: every client's timestamp sequence is in non-decreasing time order and
\* holds no timestamp later than the wall clock, under any interleaving of
\* concurrent callers (the wall clock itself not running backwards).
C16_LogNonDecreasing ==
    \A c \in DOMAIN counts_30d :
        LET v == counts_30d[c]
        IN  /\ \A i, j \in DOMAIN v : i < j => v[i] <= v[j]
            /\ \A i \in DOMAIN v : v[i] <= clock

\* C16 witness: two calls in progress at once have recorded for one client
\* at different instants, and the log holds the earlier timestamp first.
C16_Witness ==
    \E c \in DOMAIN counts_30d :
        /\ Cardinality(Recorders(c)) = 2
        /\ Len(counts_30d[c]) = 2
        /\ counts_30d[c][1] < counts_30d[c][2]

\* C17: while main builds the Registry, every registration leaves each
\* currency with at most one connector, bound under the connector's own
\* currency(): get for the currency of a connector registered for the first
\* time returns that connector, also when the currency had one before; what
\* get returns changes only to a registered connector of the currency asked
\* for, and no other currency's connector changes with it.
C17_LastRegistrationWins ==
    [][ (phase = "build" /\ phase' = "build") =>
          /\ \A k \in registered' \ registered :
                RegistryGet(inner', ConnCurrency(k)) = Ok(k)
          /\ \A c \in Currency :
                RegistryGet(inner', c) # RegistryGet(inner, c) =>
                    \E k \in registered' :
                        /\ ConnCurrency(k) = c
                        /\ RegistryGet(inner', c) = Ok(k)
          /\ Cardinality({ c \in Currency :
                  RegistryGet(inner', c) # RegistryGet(inner, c) }) <= 1
          /\ \A c \in DOMAIN inner' : ConnCurrency(inner'[c]) = c
          /\ DOMAIN inner' = { ConnCurrency(k) : k \in registered' } ]_vars

\* C17 witness: two connectors for BTC have been registered, the Registry
\* holds one connector, and get(BTC) returns the second.
C17_Witness ==
    /\ registered = {"k1", "k2"}
    /\ DOMAIN inner = {"BTC"}
    /\ RegistryGet(inner, "BTC") = Ok("k2")

\* This step is one of a call task t makes for client a.
StepFor(t, a) ==
    /\ task'[t] # task[t]
    /\ \/ task[t].pc \notin {"idle", "off", "done"} /\ task[t].client = a
       \/ task[t].pc = "idle" /\ task'[t].client = a

\* C18: no step of a record_tx, current_count_30d, fee_for or create_invoice
\* call for client a changes the log of another client b, whether b has an
\* entry, b's 30-day count, or the tier fee_for would select for b, under any
\* interleaving of the callers.
C18_ClientIsolation ==
    [][ \A t \in Tasks : \A a \in Clients : \A b \in Clients \ {a} :
          StepFor(t, a) =>
              /\ Entries(counts_30d', b) = Entries(counts_30d, b)
              /\ b \in DOMAIN counts_30d' <=> b \in DOMAIN counts_30d
              /\ InWindow(Entries(counts_30d', b), clock')
                    = InWindow(Entries(counts_30d, b), clock)
              /\ ChooseTier(cfg', InWindow(Entries(counts_30d', b), clock'))
                    = ChooseTier(cfg, InWindow(Entries(counts_30d, b), clock)) ]_vars

\* C18 witness: a call for alice has passed its recording step after bob's
\* transaction was recorded, and bob's log still holds just that transaction.
C18_Witness ==
    \E t \in Tasks :
        /\ task[t].client = "alice"
        /\ obs[t].ownIdx > 0
        /\ Len(Entries(recorded, "bob")) = 1
        /\ Entries(recorded, "alice")[obs[t].ownIdx] >= Entries(recorded, "bob")[1]
        /\ Entries(counts_30d, "bob") = Entries(recorded, "bob")
        /\ Len(Entries(counts_30d, "alice")) >= 1

\* This step is one of a check_tx or balance call of task t.
QueryStep(t) ==
    /\ task'[t] # task[t]
    /\ \/ task[t].op \in {"check_tx", "balance"}
       \/ task[t].pc = "idle" /\ task'[t].op \in {"check_tx", "balance"}

\* C19: no step of a check_tx or balance call, from its resolution to its
\* return, with or without a connector, changes the FeeEngine's log, any
\* client's count, the guard or the Registry; the call's result is nothing
\* but the resolution error or what the connector returned.
C19_QueriesStateless ==
    [][ \A t \in Tasks :
          QueryStep(t) =>
              /\ counts_30d' = counts_30d
              /\ recorded' = recorded
              /\ \A c \in Clients : CountNow(c)' = CountNow(c)
              /\ lock' = lock
              /\ inner' = inner
              /\ cfg' = cfg
              /\ task'[t].pc \in {"call", "wait", "done", "idle"} ]_vars

\* C19 witness: with a transaction on record, a balance call has returned
\* the error of its connector, and the log is as recorded.
C19_Witness ==
    \E t \in Tasks :
        /\ task[t].pc = "done"
        /\ task[t].op = "balance"
        /\ obs[t].invoked = 1
        /\ task[t].res.tag = "Err"
        /\ Len(Entries(recorded, "alice")) = 1
        /\ counts_30d = recorded

\* Task t is inside a FeeEngine method, before or inside its critical section.
InEngine(t) ==
    task[t].pc \in {"count", "count_locked", "record", "record_push", "record_prune"}

\* C20: a task whose connector call is about to be made or is pending does
\* not hold the FeeEngine's guard, and every task inside fee_for, record_tx
\* or current_count_30d (called directly or from create_invoice) eventually
\* leaves it, also in the runs where another task's connector call stays
\* pending forever.
C20_EngineNotBlockedByConnector ==
    /\ [](\A t \in Tasks : task[t].pc \in {"call", "wait"} => lock # t)
    /\ \A t \in Tasks : InEngine(t) ~> ~InEngine(t)

\* C20 witness: while one task's create_invoice waits for its connector,
\* another task's fee_for, begun after that call's transaction was
\* recorded, has returned with that transaction counted.
C20_Witness ==
    \E t1, t2 \in Tasks :
        /\ task[t1].pc = "wait"
        /\ task[t1].op = "create_invoice"
        /\ obs[t1].ownIdx > 0
        /\ FeeForDone(t2)
        /\ task[t2].client = task[t1].client
        /\ obs[t2].feeHist >= obs[t1].ownIdx
        /\ task[t2].count >= 1
        /\ lock = "free"

====
